---- MODULE Spec2Model ----
(***************************************************************************)
(* Model of stork's transfer core (src-tauri/src/stork_core.rs): the two   *)
(* tauri commands send_file and receive_file and the detached task         *)
(* handle_file_send.  One sender session and one receiver session run      *)
(* against a rendezvous (mailbox) service, a peer and a transit link       *)
(* whose answers are environment events.                                   *)
(*                                                                         *)
(* Every `tokio::time::timeout(d, fut).await` is modelled by three pieces: *)
(* the inner future becoming ready (an environment event), the deadline    *)
(* passing (a timer event) and the await resuming, which takes the value   *)
(* of the inner future when it is ready and reports Elapsed only when it   *)
(* is still pending.  The `cancel` futures handed to the magic_wormhole    *)
(* transfer calls are sleeps; when one resolves the call it was handed to  *)
(* stops and yields its "cancelled" value: Ok(None) for request_file and   *)
(* Ok(()) for transfer::send_file and ReceiveRequest::accept.              *)
(***************************************************************************)
EXTENDS Integers, Sequences, FiniteSets, TLC

\* ---------------------------------------------------------------- bounds
MaxCodeLen == 3      \* longest code string the host types
MaxFileSize == 2     \* largest file, in chunks

\* ----------------------------------------------------------------- codes
Alphabet == {"7", "-", "x"}
Digits == {"7"}

CodeStrings == UNION {[1..n -> Alphabet] : n \in 0..MaxCodeLen}

\* the code the rendezvous service allocates for the sender's mailbox
SenderCode == <<"7", "-", "x">>

\* position of the first '-' of s, 0 when there is none (str::split_once)
FirstDash(s) ==
    IF \E i \in 1..Len(s) : s[i] = "-"
    THEN CHOOSE i \in 1..Len(s) : s[i] = "-" /\ \A j \in 1..(i - 1) : s[j] # "-"
    ELSE 0

NameplateOf(s) == SubSeq(s, 1, FirstDash(s) - 1)
PasswordOf(s) == SubSeq(s, FirstDash(s) + 1, Len(s))

\* code_str.parse::<Code>(): "<nameplate>-<password>", a numeric nameplate
\* and a non-empty password; anything else is a parse error
ParseOk(s) ==
    /\ FirstDash(s) # 0
    /\ NameplateOf(s) # <<>>
    /\ \A i \in 1..Len(NameplateOf(s)) : NameplateOf(s)[i] \in Digits
    /\ PasswordOf(s) # <<>>

\* the code of the mailbox of another sender, used by the second receiver
OtherCode == <<"7", "7", "-", "x">>

Max(a, b) == IF a >= b THEN a ELSE b

\* --------------------------------------------------------------- results
SendFileResults == {"none", "Ok", "ErrNoFile", "ErrMailbox"}
TaskResults == {"none", "Ok", "ErrNoReceiver", "ErrWormhole", "ErrMetadata",
                "ErrOpen", "ErrSend"}
ReceiveResults == {"none", "Ok", "ErrCode", "ErrMailbox", "ErrConnTimeout",
                   "ErrWormhole", "ErrNoDownloads", "ErrReqTimeout",
                   "ErrRequest", "ErrNoOffer", "ErrCreate", "ErrXferTimeout",
                   "ErrAccept"}

SenderOps == {"MailboxCreate", "WormholeConnect", "SendFile"}
ReceiverOps == {"MailboxConnect", "WormholeConnect", "RequestFile", "Accept"}

VARIABLES
    sfPc,         \* send_file: "idle","exists","create","spawn","sleep","done"
    sfExists,     \* what file_path.exists() answers for the path given
    sfResult,     \* value send_file returned
    sfCode,       \* mailbox.code(), <<>> before the mailbox exists
    mailbox,      \* the sender's rendezvous entry: "none" or "open"
    spawned,      \* number of tokio::task::spawn calls made by send_file
    taskPc,       \* handle_file_send: "none","start","connect","meta","open","transfer","done"
    taskResult,   \* value handle_file_send returned
    taskPrinted,  \* line printed by the spawned closure
    sInner,       \* future awaited by the task: "none","pending","ok","err","cancelled"
    sTimer,       \* the 300 s deadline around Wormhole::connect has passed
    sCancel,      \* the 600 s cancel sleep of transfer::send_file has resolved
    fileSize,     \* metadata(&file_path).len()
    sNet,         \* sender session: calls started per network operation
    rfPc,         \* receive_file: "idle","parse","mbox","connect","dldir","request","create","accept","done"
    rfCodeStr,    \* code_str
    rfResult,     \* value receive_file returned
    rInner,       \* future awaited by receive_file
    rTimer,       \* the deadline of the timeout around the current phase has passed
    rCancel,      \* the cancel sleep of the current transfer call has resolved
    rNet,         \* receiver session: calls started per network operation
    offer,        \* offer seen by request_file: <<>> or <<declared size>>
    destExists,   \* the destination file in the downloads directory exists
    destSize,     \* its length
    destWrites,   \* number of File::create calls on the destination
    rPos,         \* write position of receive_file's handle `file`
    key,          \* key exchange on the mailbox: "none","ok","mismatch"
    acked,        \* the receiver acknowledged the whole file
    hostOutcomes, \* results delivered to the host (the webview), in order
    \* a second receive_file call running at the same time, for another code
    r2Pc,         \* as rfPc
    r2CodeStr,    \* its code_str
    r2Result,     \* value it returned
    r2Inner,      \* future it awaits
    r2Timer,      \* the deadline of the timeout around its current phase has passed
    r2Cancel,     \* the cancel sleep of its current transfer call has resolved
    r2Offer,      \* its offer: <<>> or <<same file name as the first offer, size>>
    r2Pos         \* write position of its handle `file`

senderVars == <<sfPc, sfExists, sfResult, sfCode, mailbox, spawned>>
taskVars == <<taskPc, taskResult, taskPrinted, sInner, sTimer, sCancel, fileSize>>
recvVars == <<rfPc, rfCodeStr, rfResult, rInner, rTimer, rCancel, rNet, offer>>
destVars == <<destExists, destSize, destWrites, rPos>>
recv2Vars == <<r2Pc, r2CodeStr, r2Result, r2Inner, r2Timer, r2Cancel, r2Offer,
               r2Pos>>
vars == <<sfPc, sfExists, sfResult, sfCode, mailbox, spawned, taskPc,
          taskResult, taskPrinted, sInner, sTimer, sCancel, fileSize, sNet,
          rfPc, rfCodeStr, rfResult, rInner, rTimer, rCancel, rNet, offer,
          destExists, destSize, destWrites, rPos, key, acked, hostOutcomes,
          r2Pc, r2CodeStr, r2Result, r2Inner, r2Timer, r2Cancel, r2Offer,
          r2Pos>>

TypeOK ==
    /\ sfPc \in {"idle", "exists", "create", "spawn", "sleep", "done"}
    /\ sfExists \in BOOLEAN
    /\ sfResult \in SendFileResults
    /\ sfCode \in {<<>>, SenderCode}
    /\ mailbox \in {"none", "open"}
    /\ spawned \in 0..1
    /\ taskPc \in {"none", "start", "connect", "meta", "open", "transfer", "done"}
    /\ taskResult \in TaskResults
    /\ taskPrinted \in {"none", "completed", "failed"}
    /\ sInner \in {"none", "pending", "ok", "err", "cancelled"}
    /\ sTimer \in BOOLEAN
    /\ sCancel \in BOOLEAN
    /\ fileSize \in 0..MaxFileSize
    /\ sNet \in [SenderOps -> 0..2]
    /\ rfPc \in {"idle", "parse", "mbox", "connect", "dldir", "request",
                 "create", "accept", "done"}
    /\ rfCodeStr \in CodeStrings
    /\ rfResult \in ReceiveResults
    /\ rInner \in {"none", "pending", "ok", "err", "cancelled"}
    /\ rTimer \in BOOLEAN
    /\ rCancel \in BOOLEAN
    /\ rNet \in [ReceiverOps -> 0..2]
    /\ offer \in {<<>>} \cup {<<n>> : n \in 0..MaxFileSize}
    /\ destExists \in BOOLEAN
    /\ destSize \in 0..MaxFileSize
    /\ destWrites \in 0..2
    /\ rPos \in 0..MaxFileSize
    /\ r2Pc \in {"idle", "parse", "mbox", "connect", "dldir", "request",
                 "create", "accept", "done"}
    /\ r2CodeStr \in {<<>>, OtherCode}
    /\ r2Result \in ReceiveResults
    /\ r2Inner \in {"none", "pending", "ok", "err", "cancelled"}
    /\ r2Timer \in BOOLEAN
    /\ r2Cancel \in BOOLEAN
    /\ r2Offer \in {<<>>} \cup (BOOLEAN \X (0..MaxFileSize))
    /\ r2Pos \in 0..MaxFileSize
    /\ key \in {"none", "ok", "mismatch"}
    /\ acked \in BOOLEAN
    /\ hostOutcomes \in Seq([cmd : {"send_file", "receive_file"},
                            result : SendFileResults \cup ReceiveResults])
    /\ Len(hostOutcomes) <= 2

\* the application after start-up: no command invoked yet; the downloads
\* directory may already hold a file with the name the sender will offer
Init ==
    /\ sfPc = "idle"
    /\ sfExists = FALSE
    /\ sfResult = "none"
    /\ sfCode = <<>>
    /\ mailbox = "none"
    /\ spawned = 0
    /\ taskPc = "none"
    /\ taskResult = "none"
    /\ taskPrinted = "none"
    /\ sInner = "none"
    /\ sTimer = FALSE
    /\ sCancel = FALSE
    /\ fileSize = 0
    /\ sNet = [o \in SenderOps |-> 0]
    /\ rfPc = "idle"
    /\ rfCodeStr = <<>>
    /\ rfResult = "none"
    /\ rInner = "none"
    /\ rTimer = FALSE
    /\ rCancel = FALSE
    /\ rNet = [o \in ReceiverOps |-> 0]
    /\ offer = <<>>
    /\ destExists \in BOOLEAN
    /\ destSize \in 0..MaxFileSize
    /\ (~destExists => destSize = 0)
    /\ destWrites = 0
    /\ rPos = 0
    /\ key = "none"
    /\ acked = FALSE
    /\ hostOutcomes = <<>>
    /\ r2Pc = "idle"
    /\ r2CodeStr = <<>>
    /\ r2Result = "none"
    /\ r2Inner = "none"
    /\ r2Timer = FALSE
    /\ r2Cancel = FALSE
    /\ r2Offer = <<>>
    /\ r2Pos = 0

\* ============================================================ send_file

\* the host invokes the send_file command with a path
SendFile(exists) ==
    /\ sfPc = "idle"
    /\ sfPc' = "exists"
    /\ sfExists' = exists
    /\ UNCHANGED <<sfResult, sfCode, mailbox, spawned, sNet, key, acked,
                   hostOutcomes>>
    /\ UNCHANGED <<taskVars, recvVars, destVars>>
    /\ UNCHANGED recv2Vars

\* the command returns r to the host
SfReturn(r) ==
    /\ sfPc' = "done"
    /\ sfResult' = r
    /\ hostOutcomes' = Append(hostOutcomes, [cmd |-> "send_file", result |-> r])

\* if !file_path.exists() { return Err(..) }, else MailboxConnection::create
SfCheckExistsMut ==
    /\ sfPc = "exists"
    /\ sfPc' = "create"
    /\ sNet' = [sNet EXCEPT !["MailboxCreate"] = @ + 1]
    /\ UNCHANGED <<sfResult, hostOutcomes>>
    /\ UNCHANGED <<sfExists, sfCode, mailbox, spawned, key, acked>>
    /\ UNCHANGED <<taskVars, recvVars, destVars>>
    /\ UNCHANGED recv2Vars
SfCheckExists ==
    /\ sfPc = "exists"
    /\ IF sfExists
       THEN /\ sfPc' = "create"
            /\ sNet' = [sNet EXCEPT !["MailboxCreate"] = @ + 1]
            /\ UNCHANGED <<sfResult, hostOutcomes>>
       ELSE /\ SfReturn("ErrNoFile")
            /\ UNCHANGED sNet
    /\ UNCHANGED <<sfExists, sfCode, mailbox, spawned, key, acked>>
    /\ UNCHANGED <<taskVars, recvVars, destVars>>
    /\ UNCHANGED recv2Vars

\* MailboxConnection::create answers with a mailbox and its code
SfMailboxCreated ==
    /\ sfPc = "create"
    /\ mailbox' = "open"
    /\ sfCode' = SenderCode
    /\ sfPc' = "spawn"
    /\ UNCHANGED <<sfExists, sfResult, spawned, sNet, key, acked, hostOutcomes>>
    /\ UNCHANGED <<taskVars, recvVars, destVars>>
    /\ UNCHANGED recv2Vars

\* MailboxConnection::create fails: map_err and `?`
SfMailboxFailed ==
    /\ sfPc = "create"
    /\ SfReturn("ErrMailbox")
    /\ UNCHANGED <<sfExists, sfCode, mailbox, spawned, sNet, key, acked>>
    /\ UNCHANGED <<taskVars, recvVars, destVars>>
    /\ UNCHANGED recv2Vars

\* tokio::task::spawn(handle_file_send(mailbox, file_path)); the handle is
\* bound to _handle and dropped when send_file returns
SfSpawn ==
    /\ sfPc = "spawn"
    /\ spawned' = spawned + 1
    /\ taskPc' = "start"
    /\ sfPc' = "sleep"
    /\ UNCHANGED <<sfExists, sfResult, sfCode, mailbox, sNet, key, acked,
                   hostOutcomes>>
    /\ UNCHANGED <<taskResult, taskPrinted, sInner, sTimer, sCancel, fileSize>>
    /\ UNCHANGED <<recvVars, destVars>>
    /\ UNCHANGED recv2Vars

\* the 2000 ms sleep ends; Ok(code.to_string())
SfSleepReturnTaskMut ==
    /\ sfPc = "sleep"
    /\ IF taskResult \in {"none", "Ok"} THEN SfReturn("Ok")
       ELSE SfReturn("ErrMailbox")
    /\ UNCHANGED <<sfExists, sfCode, mailbox, spawned, sNet, key, acked>>
    /\ UNCHANGED <<taskVars, recvVars, destVars>>
    /\ UNCHANGED recv2Vars
SfSleepReturnAbortMut ==
    /\ sfPc = "sleep"
    /\ SfReturn("Ok")
    /\ taskPc' = "done"
    /\ UNCHANGED <<taskResult, taskPrinted, sInner, sTimer, sCancel, fileSize>>
    /\ UNCHANGED <<sfExists, sfCode, mailbox, spawned, sNet, key, acked>>
    /\ UNCHANGED <<recvVars, destVars>>
    /\ UNCHANGED recv2Vars
SfSleepReturnMut ==
    /\ sfPc = "sleep"
    /\ taskPc = "done"
    /\ SfReturn("Ok")
    /\ UNCHANGED <<sfExists, sfCode, mailbox, spawned, sNet, key, acked>>
    /\ UNCHANGED <<taskVars, recvVars, destVars>>
    /\ UNCHANGED recv2Vars
SfSleepReturn ==
    /\ sfPc = "sleep"
    /\ SfReturn("Ok")
    /\ UNCHANGED <<sfExists, sfCode, mailbox, spawned, sNet, key, acked>>
    /\ UNCHANGED <<taskVars, recvVars, destVars>>
    /\ UNCHANGED recv2Vars

\* ===================================================== handle_file_send

\* handle_file_send returns r; the spawned closure prints the matching line
\* and the task ends.  Nothing but the println! sees r.
TaskEnd(r) ==
    /\ taskPc' = "done"
    /\ taskResult' = r
    /\ taskPrinted' = IF r = "Ok" THEN "completed" ELSE "failed"

\* the spawned task is first polled: Wormhole::connect(mailbox) is started
\* under timeout(300 s)
TConnectStart ==
    /\ taskPc = "start"
    /\ taskPc' = "connect"
    /\ sInner' = "pending"
    /\ sNet' = [sNet EXCEPT !["WormholeConnect"] = @ + 1]
    /\ UNCHANGED <<taskResult, taskPrinted, sTimer, sCancel, fileSize>>
    /\ UNCHANGED <<senderVars, recvVars, destVars, key, acked, hostOutcomes>>
    /\ UNCHANGED recv2Vars

\* both sides are inside Wormhole::connect on the same nameplate: the key
\* exchange runs, and the keys agree exactly when the codes are the same
PakeExchange ==
    /\ taskPc = "connect" /\ sInner = "pending"
    /\ rfPc = "connect" /\ rInner = "pending"
    /\ key = "none"
    /\ key' = IF rfCodeStr = sfCode THEN "ok" ELSE "mismatch"
    /\ UNCHANGED <<senderVars, taskVars, recvVars, destVars, sNet, acked,
                   hostOutcomes>>
    /\ UNCHANGED recv2Vars

\* the sender's Wormhole::connect becomes ready: Ok once the keys agree,
\* Err on a key mismatch or when the rendezvous connection breaks
SConnectReady(v) ==
    /\ taskPc = "connect" /\ sInner = "pending"
    /\ v \in {"ok", "err"}
    /\ (v = "ok") => (key = "ok")
    /\ (key = "mismatch") => (v = "err")
    /\ sInner' = v
    /\ UNCHANGED <<taskPc, taskResult, taskPrinted, sTimer, sCancel, fileSize>>
    /\ UNCHANGED <<senderVars, recvVars, destVars, sNet, key, acked,
                   hostOutcomes>>
    /\ UNCHANGED recv2Vars

\* the 300 s deadline passes
STimerFire ==
    /\ taskPc = "connect"
    /\ ~sTimer
    /\ sTimer' = TRUE
    /\ UNCHANGED <<taskPc, taskResult, taskPrinted, sInner, sCancel, fileSize>>
    /\ UNCHANGED <<senderVars, recvVars, destVars, sNet, key, acked,
                   hostOutcomes>>
    /\ UNCHANGED recv2Vars

\* timeout(..).await resumes: .map_err(Elapsed)? then .map_err(e)?
TConnectAwaitRetryMut ==
    /\ taskPc = "connect"
    /\ sInner # "pending" \/ sTimer
    /\ IF sInner = "ok" THEN /\ taskPc' = "meta"
                             /\ UNCHANGED <<taskResult, taskPrinted>>
       ELSE IF sNet["WormholeConnect"] < 2
            THEN /\ taskPc' = "start"
                 /\ UNCHANGED <<taskResult, taskPrinted>>
       ELSE TaskEnd("ErrWormhole")
    /\ UNCHANGED <<sInner, sTimer, sCancel, fileSize>>
    /\ UNCHANGED <<senderVars, recvVars, destVars, sNet, key, acked,
                   hostOutcomes>>
    /\ UNCHANGED recv2Vars
TConnectAwaitMut ==
    /\ taskPc = "connect"
    /\ sInner # "pending" \/ sTimer
    /\ IF sTimer THEN /\ taskPc' = "meta"
                      /\ UNCHANGED <<taskResult, taskPrinted>>
       ELSE IF sInner = "ok" THEN /\ taskPc' = "meta"
                                  /\ UNCHANGED <<taskResult, taskPrinted>>
       ELSE TaskEnd("ErrWormhole")
    /\ UNCHANGED <<sInner, sTimer, sCancel, fileSize>>
    /\ UNCHANGED <<senderVars, recvVars, destVars, sNet, key, acked,
                   hostOutcomes>>
    /\ UNCHANGED recv2Vars
TConnectAwait ==
    /\ taskPc = "connect"
    /\ sInner # "pending" \/ sTimer
    /\ IF sInner = "ok" THEN /\ taskPc' = "meta"
                             /\ UNCHANGED <<taskResult, taskPrinted>>
       ELSE IF sInner = "err" THEN TaskEnd("ErrWormhole")
       ELSE TaskEnd("ErrNoReceiver")
    /\ UNCHANGED <<sInner, sTimer, sCancel, fileSize>>
    /\ UNCHANGED <<senderVars, recvVars, destVars, sNet, key, acked,
                   hostOutcomes>>
    /\ UNCHANGED recv2Vars

\* async_std::fs::metadata(&file_path).len(), or its error
TMetadata(n) ==
    /\ taskPc = "meta"
    /\ n \in (0..MaxFileSize) \cup {-1}
    /\ IF n >= 0 THEN /\ taskPc' = "open"
                      /\ fileSize' = n
                      /\ UNCHANGED <<taskResult, taskPrinted>>
       ELSE /\ TaskEnd("ErrMetadata")
            /\ UNCHANGED fileSize
    /\ UNCHANGED <<sInner, sTimer, sCancel>>
    /\ UNCHANGED <<senderVars, recvVars, destVars, sNet, key, acked,
                   hostOutcomes>>
    /\ UNCHANGED recv2Vars

\* File::open(&file_path), then transfer::send_file(.., cancel) is started
TOpen(ok) ==
    /\ taskPc = "open"
    /\ IF ok THEN /\ taskPc' = "transfer"
                  /\ sInner' = "pending"
                  /\ sNet' = [sNet EXCEPT !["SendFile"] = @ + 1]
                  /\ UNCHANGED <<taskResult, taskPrinted>>
       ELSE /\ TaskEnd("ErrOpen")
            /\ UNCHANGED <<sInner, sNet>>
    /\ UNCHANGED <<sTimer, sCancel, fileSize>>
    /\ UNCHANGED <<senderVars, recvVars, destVars, key, acked, hostOutcomes>>
    /\ UNCHANGED recv2Vars

\* the 600 s cancel sleep resolves while transfer::send_file is running:
\* the call stops and is ready with its cancelled value
SCancelFire ==
    /\ taskPc = "transfer" /\ sInner = "pending"
    /\ sCancel' = TRUE
    /\ sInner' = "cancelled"
    /\ UNCHANGED <<taskPc, taskResult, taskPrinted, sTimer, fileSize>>
    /\ UNCHANGED <<senderVars, recvVars, destVars, sNet, key, acked,
                   hostOutcomes>>
    /\ UNCHANGED recv2Vars

\* transfer::send_file becomes ready: Ok once the receiver acknowledged the
\* file, Err on a peer or transit error
SSendReady(v) ==
    /\ taskPc = "transfer" /\ sInner = "pending"
    /\ v \in {"ok", "err"}
    /\ (v = "ok") => acked
    /\ sInner' = v
    /\ UNCHANGED <<taskPc, taskResult, taskPrinted, sTimer, sCancel, fileSize>>
    /\ UNCHANGED <<senderVars, recvVars, destVars, sNet, key, acked,
                   hostOutcomes>>
    /\ UNCHANGED recv2Vars

\* transfer::send_file(..).await.map_err(..)?; Ok(())
TSendAwait ==
    /\ taskPc = "transfer"
    /\ sInner # "pending"
    /\ IF sInner = "err" THEN TaskEnd("ErrSend") ELSE TaskEnd("Ok")
    /\ UNCHANGED <<sInner, sTimer, sCancel, fileSize>>
    /\ UNCHANGED <<senderVars, recvVars, destVars, sNet, key, acked,
                   hostOutcomes>>
    /\ UNCHANGED recv2Vars

\* ========================================================= receive_file

\* the host invokes the receive_file command with the code that was typed
ReceiveFile(s) ==
    /\ rfPc = "idle"
    /\ s \in CodeStrings
    /\ rfPc' = "parse"
    /\ rfCodeStr' = s
    /\ UNCHANGED <<rfResult, rInner, rTimer, rCancel, rNet, offer>>
    /\ UNCHANGED <<senderVars, taskVars, destVars, sNet, key, acked,
                   hostOutcomes>>
    /\ UNCHANGED recv2Vars

\* the command returns r to the host
RfReturn(r) ==
    /\ rfPc' = "done"
    /\ rfResult' = r
    /\ hostOutcomes' = Append(hostOutcomes, [cmd |-> "receive_file", result |-> r])

\* a call wrapped in a timeout, or handed a cancel future, is started
RStartCall(phase, op) ==
    /\ rfPc' = phase
    /\ rInner' = "pending"
    /\ rTimer' = FALSE
    /\ rCancel' = FALSE
    /\ rNet' = [rNet EXCEPT ![op] = @ + 1]

\* code_str.parse().map_err(..)?, then MailboxConnection::connect is started
RParseMut ==
    /\ rfPc = "parse"
    /\ rfPc' = "mbox"
    /\ rNet' = [rNet EXCEPT !["MailboxConnect"] = @ + 1]
    /\ UNCHANGED <<rfResult, hostOutcomes>>
    /\ UNCHANGED <<rfCodeStr, rInner, rTimer, rCancel, offer>>
    /\ UNCHANGED <<senderVars, taskVars, destVars, sNet, key, acked>>
    /\ UNCHANGED recv2Vars
RParse ==
    /\ rfPc = "parse"
    /\ IF ParseOk(rfCodeStr)
       THEN /\ rfPc' = "mbox"
            /\ rNet' = [rNet EXCEPT !["MailboxConnect"] = @ + 1]
            /\ UNCHANGED <<rfResult, hostOutcomes>>
       ELSE /\ RfReturn("ErrCode")
            /\ UNCHANGED rNet
    /\ UNCHANGED <<rfCodeStr, rInner, rTimer, rCancel, offer>>
    /\ UNCHANGED <<senderVars, taskVars, destVars, sNet, key, acked>>
    /\ UNCHANGED recv2Vars

\* MailboxConnection::connect(APP_CONFIG, code, false) answers: the nameplate
\* is the one of an open mailbox; Wormhole::connect is started under
\* timeout(120 s)
RMailboxConnected ==
    /\ rfPc = "mbox"
    /\ mailbox = "open"
    /\ NameplateOf(rfCodeStr) = NameplateOf(sfCode)
    /\ RStartCall("connect", "WormholeConnect")
    /\ UNCHANGED <<rfCodeStr, rfResult, offer, hostOutcomes>>
    /\ UNCHANGED <<senderVars, taskVars, destVars, sNet, key, acked>>
    /\ UNCHANGED recv2Vars

\* MailboxConnection::connect fails (unclaimed nameplate, service error)
RMailboxFailed ==
    /\ rfPc = "mbox"
    /\ RfReturn("ErrMailbox")
    /\ UNCHANGED <<rfCodeStr, rInner, rTimer, rCancel, rNet, offer>>
    /\ UNCHANGED <<senderVars, taskVars, destVars, sNet, key, acked>>
    /\ UNCHANGED recv2Vars

\* the deadline of the timeout around the running call passes
RTimerFire ==
    /\ rfPc \in {"connect", "request", "accept"}
    /\ ~rTimer
    /\ rTimer' = TRUE
    /\ UNCHANGED <<rfPc, rfCodeStr, rfResult, rInner, rCancel, rNet, offer>>
    /\ UNCHANGED <<senderVars, taskVars, destVars, sNet, key, acked,
                   hostOutcomes>>
    /\ UNCHANGED recv2Vars

\* the receiver's Wormhole::connect becomes ready
RConnectReady(v) ==
    /\ rfPc = "connect" /\ rInner = "pending"
    /\ v \in {"ok", "err"}
    /\ (v = "ok") => (key = "ok")
    /\ (key = "mismatch") => (v = "err")
    /\ rInner' = v
    /\ UNCHANGED <<rfPc, rfCodeStr, rfResult, rTimer, rCancel, rNet, offer>>
    /\ UNCHANGED <<senderVars, taskVars, destVars, sNet, key, acked,
                   hostOutcomes>>
    /\ UNCHANGED recv2Vars

\* timeout(120 s, Wormhole::connect).await resumes
RConnectAwaitMut ==
    /\ rfPc = "connect"
    /\ rInner # "pending" \/ rTimer
    /\ rfPc' = "dldir"
    /\ UNCHANGED <<rfResult, hostOutcomes>>
    /\ UNCHANGED <<rfCodeStr, rInner, rTimer, rCancel, rNet, offer>>
    /\ UNCHANGED <<senderVars, taskVars, destVars, sNet, key, acked>>
    /\ UNCHANGED recv2Vars
RConnectAwait ==
    /\ rfPc = "connect"
    /\ rInner # "pending" \/ rTimer
    /\ IF rInner = "ok" THEN /\ rfPc' = "dldir"
                             /\ UNCHANGED <<rfResult, hostOutcomes>>
       ELSE IF rInner = "err" THEN RfReturn("ErrWormhole")
       ELSE RfReturn("ErrConnTimeout")
    /\ UNCHANGED <<rfCodeStr, rInner, rTimer, rCancel, rNet, offer>>
    /\ UNCHANGED <<senderVars, taskVars, destVars, sNet, key, acked>>
    /\ UNCHANGED recv2Vars

\* dirs_next::download_dir().ok_or(..)?, then transfer::request_file is
\* started under timeout(120 s) with its own 600 s cancel sleep
RDownloadDir(found) ==
    /\ rfPc = "dldir"
    /\ IF found
       THEN /\ RStartCall("request", "RequestFile")
            /\ UNCHANGED <<rfResult, hostOutcomes>>
       ELSE /\ RfReturn("ErrNoDownloads")
            /\ UNCHANGED <<rInner, rTimer, rCancel, rNet>>
    /\ UNCHANGED <<rfCodeStr, offer>>
    /\ UNCHANGED <<senderVars, taskVars, destVars, sNet, key, acked>>
    /\ UNCHANGED recv2Vars

\* the cancel sleep of the running transfer call resolves: the call stops
\* and is ready with its cancelled value
RCancelFire ==
    /\ rfPc \in {"request", "accept"} /\ rInner = "pending"
    /\ rCancel' = TRUE
    /\ rInner' = "cancelled"
    /\ UNCHANGED <<rfPc, rfCodeStr, rfResult, rTimer, rNet, offer>>
    /\ UNCHANGED <<senderVars, taskVars, destVars, sNet, key, acked,
                   hostOutcomes>>
    /\ UNCHANGED recv2Vars

\* the sender's offer (file name and declared size) reaches request_file
OfferArrives ==
    /\ rfPc = "request" /\ rInner = "pending"
    /\ taskPc = "transfer" /\ sInner = "pending"
    /\ rInner' = "ok"
    /\ offer' = <<fileSize>>
    /\ UNCHANGED <<rfPc, rfCodeStr, rfResult, rTimer, rCancel, rNet>>
    /\ UNCHANGED <<senderVars, taskVars, destVars, sNet, key, acked,
                   hostOutcomes>>
    /\ UNCHANGED recv2Vars

\* request_file fails (peer error, connection lost)
RRequestFails ==
    /\ rfPc = "request" /\ rInner = "pending"
    /\ rInner' = "err"
    /\ UNCHANGED <<rfPc, rfCodeStr, rfResult, rTimer, rCancel, rNet, offer>>
    /\ UNCHANGED <<senderVars, taskVars, destVars, sNet, key, acked,
                   hostOutcomes>>
    /\ UNCHANGED recv2Vars

\* timeout(120 s, request_file).await resumes; `if let Some(req) = req`
RRequestAwait ==
    /\ rfPc = "request"
    /\ rInner # "pending" \/ rTimer
    /\ IF rInner = "ok" THEN /\ rfPc' = "create"
                             /\ UNCHANGED <<rfResult, hostOutcomes>>
       ELSE IF rInner = "cancelled" THEN RfReturn("ErrNoOffer")
       ELSE IF rInner = "err" THEN RfReturn("ErrRequest")
       ELSE RfReturn("ErrReqTimeout")
    /\ UNCHANGED <<rfCodeStr, rInner, rTimer, rCancel, rNet, offer>>
    /\ UNCHANGED <<senderVars, taskVars, destVars, sNet, key, acked>>
    /\ UNCHANGED recv2Vars

\* File::create(&file_path) creates or truncates the destination, then
\* req.accept is started under timeout(600 s) with a 600 s cancel sleep
RCreateMut(ok) ==
    /\ rfPc = "create"
    /\ IF ok
       THEN /\ destExists' = TRUE
            /\ destSize' = 0
            /\ destWrites' = destWrites + 1
            /\ rPos' = 0
       ELSE UNCHANGED destVars
    /\ RStartCall("accept", "Accept")
    /\ UNCHANGED <<rfResult, hostOutcomes>>
    /\ UNCHANGED <<rfCodeStr, offer>>
    /\ UNCHANGED <<senderVars, taskVars, sNet, key, acked>>
    /\ UNCHANGED recv2Vars
RCreate(ok) ==
    /\ rfPc = "create"
    /\ IF ok
       THEN /\ destExists' = TRUE
            /\ destSize' = 0
            /\ destWrites' = destWrites + 1
            /\ rPos' = 0
            /\ RStartCall("accept", "Accept")
            /\ UNCHANGED <<rfResult, hostOutcomes>>
       ELSE /\ RfReturn("ErrCreate")
            /\ UNCHANGED <<rInner, rTimer, rCancel, rNet, destVars>>
    /\ UNCHANGED <<rfCodeStr, offer>>
    /\ UNCHANGED <<senderVars, taskVars, sNet, key, acked>>
    /\ UNCHANGED recv2Vars

\* one chunk travels from the sender's file to the destination file: it
\* is written at the position of the handle, which moves on
Chunk ==
    /\ rfPc = "accept" /\ rInner = "pending"
    /\ taskPc = "transfer" /\ sInner = "pending"
    /\ rPos < offer[1]
    /\ rPos' = rPos + 1
    /\ destSize' = Max(destSize, rPos + 1)
    /\ UNCHANGED <<destExists, destWrites>>
    /\ UNCHANGED <<senderVars, taskVars, recvVars, sNet, key, acked,
                   hostOutcomes>>
    /\ UNCHANGED recv2Vars

\* accept becomes ready: Ok when every declared byte was written (the
\* acknowledgement goes to the sender), Err on a peer or transit error
RAcceptReady(v) ==
    /\ rfPc = "accept" /\ rInner = "pending"
    /\ v \in {"ok", "err"}
    /\ (v = "ok") => (rPos = offer[1])
    /\ rInner' = v
    /\ acked' = (acked \/ v = "ok")
    /\ UNCHANGED <<rfPc, rfCodeStr, rfResult, rTimer, rCancel, rNet, offer>>
    /\ UNCHANGED <<senderVars, taskVars, destVars, sNet, key, hostOutcomes>>
    /\ UNCHANGED recv2Vars

\* timeout(600 s, req.accept).await resumes; Ok(file_path)
RAcceptAwaitCleanupMut ==
    /\ rfPc = "accept"
    /\ rInner # "pending" \/ rTimer
    /\ IF rInner \in {"ok", "cancelled"}
       THEN /\ RfReturn("Ok")
            /\ UNCHANGED destVars
       ELSE /\ IF rInner = "err" THEN RfReturn("ErrAccept")
               ELSE RfReturn("ErrXferTimeout")
            /\ destExists' = FALSE
            /\ destSize' = 0
            /\ UNCHANGED <<destWrites, rPos>>
    /\ UNCHANGED <<rfCodeStr, rInner, rTimer, rCancel, rNet, offer>>
    /\ UNCHANGED <<senderVars, taskVars, sNet, key, acked>>
    /\ UNCHANGED recv2Vars
RAcceptAwaitMut ==
    /\ rfPc = "accept"
    /\ rInner # "pending" \/ rTimer
    /\ IF rTimer THEN RfReturn("ErrXferTimeout")
       ELSE IF rInner = "err" THEN RfReturn("ErrAccept")
       ELSE RfReturn("Ok")
    /\ UNCHANGED <<rfCodeStr, rInner, rTimer, rCancel, rNet, offer>>
    /\ UNCHANGED <<senderVars, taskVars, destVars, sNet, key, acked>>
    /\ UNCHANGED recv2Vars
RAcceptAwait ==
    /\ rfPc = "accept"
    /\ rInner # "pending" \/ rTimer
    /\ IF rInner \in {"ok", "cancelled"} THEN RfReturn("Ok")
       ELSE IF rInner = "err" THEN RfReturn("ErrAccept")
       ELSE RfReturn("ErrXferTimeout")
    /\ UNCHANGED <<rfCodeStr, rInner, rTimer, rCancel, rNet, offer>>
    /\ UNCHANGED <<senderVars, taskVars, destVars, sNet, key, acked>>
    /\ UNCHANGED recv2Vars

\* ============================================ a second receive_file call
\* The host may invoke receive_file again while the first call is still
\* running (the command is async). The second call has its own locals; its
\* sender is another machine and is left to the environment. The two calls
\* share the downloads directory; of its files the model follows the first
\* call's destination.

\* the host invokes receive_file with the code of another sender
ReceiveFile2 ==
    /\ r2Pc = "idle"
    /\ r2Pc' = "parse"
    /\ r2CodeStr' = OtherCode
    /\ UNCHANGED <<r2Result, r2Inner, r2Timer, r2Cancel, r2Offer, r2Pos>>
    /\ UNCHANGED <<senderVars, taskVars, recvVars, destVars, sNet, key,
                   acked, hostOutcomes>>

\* the second call returns r to the host (the value stays in r2Result); its
\* locals are dropped
R2Return(r) ==
    /\ r2Pc' = "done"
    /\ r2Result' = r
    /\ r2Inner' = "none"
    /\ r2Timer' = FALSE
    /\ r2Cancel' = FALSE
    /\ r2Offer' = <<>>
    /\ r2Pos' = 0

\* a call wrapped in a timeout, or handed a cancel future, is started
R2StartCall(phase) ==
    /\ r2Pc' = phase
    /\ r2Inner' = "pending"
    /\ r2Timer' = FALSE
    /\ r2Cancel' = FALSE

\* code_str.parse().map_err(..)?
R2Parse ==
    /\ r2Pc = "parse"
    /\ IF ParseOk(r2CodeStr)
       THEN /\ r2Pc' = "mbox"
            /\ UNCHANGED <<r2Result, r2Inner, r2Timer, r2Cancel, r2Offer,
                           r2Pos>>
       ELSE R2Return("ErrCode")
    /\ UNCHANGED r2CodeStr
    /\ UNCHANGED <<senderVars, taskVars, recvVars, destVars, sNet, key, acked,
                   hostOutcomes>>

\* MailboxConnection::connect answers for the other nameplate
R2MailboxConnected ==
    /\ r2Pc = "mbox"
    /\ NameplateOf(r2CodeStr) # NameplateOf(SenderCode)
    /\ R2StartCall("connect")
    /\ UNCHANGED <<r2CodeStr, r2Result, r2Offer, r2Pos>>
    /\ UNCHANGED <<senderVars, taskVars, recvVars, destVars, sNet, key,
                   acked, hostOutcomes>>

\* MailboxConnection::connect fails
R2MailboxFailed ==
    /\ r2Pc = "mbox"
    /\ R2Return("ErrMailbox")
    /\ UNCHANGED r2CodeStr
    /\ UNCHANGED <<senderVars, taskVars, recvVars, destVars, sNet, key, acked,
                   hostOutcomes>>

\* the deadline of the timeout around the second call's running call passes
R2TimerFire ==
    /\ r2Pc \in {"connect", "request", "accept"}
    /\ ~r2Timer
    /\ r2Timer' = TRUE
    /\ UNCHANGED <<r2Pc, r2CodeStr, r2Result, r2Inner, r2Cancel, r2Offer,
                   r2Pos>>
    /\ UNCHANGED <<senderVars, taskVars, recvVars, destVars, sNet, key,
                   acked, hostOutcomes>>

\* the second call's Wormhole::connect becomes ready
R2ConnectReady(v) ==
    /\ r2Pc = "connect" /\ r2Inner = "pending"
    /\ v \in {"ok", "err"}
    /\ r2Inner' = v
    /\ UNCHANGED <<r2Pc, r2CodeStr, r2Result, r2Timer, r2Cancel, r2Offer,
                   r2Pos>>
    /\ UNCHANGED <<senderVars, taskVars, recvVars, destVars, sNet, key,
                   acked, hostOutcomes>>

\* timeout(120 s, Wormhole::connect).await resumes
R2ConnectAwait ==
    /\ r2Pc = "connect"
    /\ r2Inner # "pending" \/ r2Timer
    /\ IF r2Inner = "ok"
       THEN /\ r2Pc' = "dldir"
            /\ UNCHANGED <<r2Result, r2Inner, r2Timer, r2Cancel, r2Offer,
                           r2Pos>>
       ELSE IF r2Inner = "err" THEN R2Return("ErrWormhole")
       ELSE R2Return("ErrConnTimeout")
    /\ UNCHANGED r2CodeStr
    /\ UNCHANGED <<senderVars, taskVars, recvVars, destVars, sNet, key, acked,
                   hostOutcomes>>

\* dirs_next::download_dir().ok_or(..)?, then request_file is started
R2DownloadDir(found) ==
    /\ r2Pc = "dldir"
    /\ IF found
       THEN /\ R2StartCall("request")
            /\ UNCHANGED <<r2Result, r2Offer, r2Pos>>
       ELSE R2Return("ErrNoDownloads")
    /\ UNCHANGED r2CodeStr
    /\ UNCHANGED <<senderVars, taskVars, recvVars, destVars, sNet, key, acked,
                   hostOutcomes>>

\* the cancel sleep of the second call's running transfer call resolves
R2CancelFire ==
    /\ r2Pc \in {"request", "accept"} /\ r2Inner = "pending"
    /\ r2Cancel' = TRUE
    /\ r2Inner' = "cancelled"
    /\ UNCHANGED <<r2Pc, r2CodeStr, r2Result, r2Timer, r2Offer, r2Pos>>
    /\ UNCHANGED <<senderVars, taskVars, recvVars, destVars, sNet, key,
                   acked, hostOutcomes>>

\* the other sender's offer arrives: its file has the same name as the
\* first sender's (same) or another one, and declares n bytes
R2OfferArrives(same, n) ==
    /\ r2Pc = "request" /\ r2Inner = "pending"
    /\ same \in BOOLEAN /\ n \in 0..MaxFileSize
    /\ r2Inner' = "ok"
    /\ r2Offer' = <<same, n>>
    /\ UNCHANGED <<r2Pc, r2CodeStr, r2Result, r2Timer, r2Cancel, r2Pos>>
    /\ UNCHANGED <<senderVars, taskVars, recvVars, destVars, sNet, key,
                   acked, hostOutcomes>>

\* the second call's request_file fails
R2RequestFails ==
    /\ r2Pc = "request" /\ r2Inner = "pending"
    /\ r2Inner' = "err"
    /\ UNCHANGED <<r2Pc, r2CodeStr, r2Result, r2Timer, r2Cancel, r2Offer,
                   r2Pos>>
    /\ UNCHANGED <<senderVars, taskVars, recvVars, destVars, sNet, key,
                   acked, hostOutcomes>>

\* timeout(120 s, request_file).await resumes; `if let Some(req) = req`
R2RequestAwait ==
    /\ r2Pc = "request"
    /\ r2Inner # "pending" \/ r2Timer
    /\ IF r2Inner = "ok"
       THEN /\ r2Pc' = "create"
            /\ UNCHANGED <<r2Result, r2Inner, r2Timer, r2Cancel, r2Offer,
                           r2Pos>>
       ELSE IF r2Inner = "cancelled" THEN R2Return("ErrNoOffer")
       ELSE IF r2Inner = "err" THEN R2Return("ErrRequest")
       ELSE R2Return("ErrReqTimeout")
    /\ UNCHANGED r2CodeStr
    /\ UNCHANGED <<senderVars, taskVars, recvVars, destVars, sNet, key, acked,
                   hostOutcomes>>

\* File::create(downloads_dir.join(file_name)): the path depends on the
\* offered name only, so an offer with the first sender's file name creates
\* or truncates the first call's destination
R2Create(ok) ==
    /\ r2Pc = "create"
    /\ IF ok
       THEN /\ IF r2Offer[1]
               THEN /\ destExists' = TRUE
                    /\ destSize' = 0
                    /\ destWrites' = destWrites + 1
                    /\ UNCHANGED rPos
               ELSE UNCHANGED destVars
            /\ R2StartCall("accept")
            /\ r2Pos' = 0
            /\ UNCHANGED <<r2Result, r2Offer>>
       ELSE /\ R2Return("ErrCreate")
            /\ UNCHANGED destVars
    /\ UNCHANGED r2CodeStr
    /\ UNCHANGED <<senderVars, taskVars, recvVars, sNet, key, acked,
                   hostOutcomes>>

\* one chunk of the other sender's file is written through the second
\* call's handle, at that handle's position
R2Chunk ==
    /\ r2Pc = "accept" /\ r2Inner = "pending"
    /\ r2Pos < r2Offer[2]
    /\ r2Pos' = r2Pos + 1
    /\ IF r2Offer[1]
       THEN /\ destSize' = Max(destSize, r2Pos + 1)
            /\ UNCHANGED <<destExists, destWrites, rPos>>
       ELSE UNCHANGED destVars
    /\ UNCHANGED <<r2Pc, r2CodeStr, r2Result, r2Inner, r2Timer, r2Cancel,
                   r2Offer>>
    /\ UNCHANGED <<senderVars, taskVars, recvVars, sNet, key, acked,
                   hostOutcomes>>

\* the second call's accept becomes ready
R2AcceptReady(v) ==
    /\ r2Pc = "accept" /\ r2Inner = "pending"
    /\ v \in {"ok", "err"}
    /\ (v = "ok") => (r2Pos = r2Offer[2])
    /\ r2Inner' = v
    /\ UNCHANGED <<r2Pc, r2CodeStr, r2Result, r2Timer, r2Cancel, r2Offer,
                   r2Pos>>
    /\ UNCHANGED <<senderVars, taskVars, recvVars, destVars, sNet, key,
                   acked, hostOutcomes>>

\* timeout(600 s, req.accept).await resumes; Ok(file_path)
R2AcceptAwait ==
    /\ r2Pc = "accept"
    /\ r2Inner # "pending" \/ r2Timer
    /\ IF r2Inner \in {"ok", "cancelled"} THEN R2Return("Ok")
       ELSE IF r2Inner = "err" THEN R2Return("ErrAccept")
       ELSE R2Return("ErrXferTimeout")
    /\ UNCHANGED r2CodeStr
    /\ UNCHANGED <<senderVars, taskVars, recvVars, destVars, sNet, key, acked,
                   hostOutcomes>>

\* ======================================================== specifications
Next ==
    \/ \E e \in BOOLEAN : SendFile(e)
    \/ SfCheckExists
    \/ SfMailboxCreated
    \/ SfMailboxFailed
    \/ SfSpawn
    \/ SfSleepReturn
    \/ TConnectStart
    \/ PakeExchange
    \/ \E v \in {"ok", "err"} : SConnectReady(v)
    \/ STimerFire
    \/ TConnectAwait
    \/ \E n \in (0..MaxFileSize) \cup {-1} : TMetadata(n)
    \/ \E ok \in BOOLEAN : TOpen(ok)
    \/ SCancelFire
    \/ \E v \in {"ok", "err"} : SSendReady(v)
    \/ TSendAwait
    \/ \E s \in CodeStrings : ReceiveFile(s)
    \/ RParse
    \/ RMailboxConnected
    \/ RMailboxFailed
    \/ RTimerFire
    \/ \E v \in {"ok", "err"} : RConnectReady(v)
    \/ RConnectAwait
    \/ \E found \in BOOLEAN : RDownloadDir(found)
    \/ RCancelFire
    \/ OfferArrives
    \/ RRequestFails
    \/ RRequestAwait
    \/ \E ok \in BOOLEAN : RCreate(ok)
    \/ Chunk
    \/ \E v \in {"ok", "err"} : RAcceptReady(v)
    \/ RAcceptAwait

Spec == Init /\ [][Next]_vars

\* The runtime polls every task that can make progress, and every tokio
\* sleep eventually resolves; the rendezvous service, the peer and the
\* transit link owe nothing.
Fairness ==
    /\ WF_vars(SfCheckExists)
    /\ WF_vars(SfSpawn)
    /\ WF_vars(SfSleepReturn)
    /\ WF_vars(TConnectStart)
    /\ WF_vars(STimerFire)
    /\ WF_vars(TConnectAwait)
    /\ WF_vars(\E n \in (0..MaxFileSize) \cup {-1} : TMetadata(n))
    /\ WF_vars(\E ok \in BOOLEAN : TOpen(ok))
    /\ WF_vars(SCancelFire)
    /\ WF_vars(TSendAwait)
    /\ WF_vars(RParse)
    /\ WF_vars(RTimerFire)
    /\ WF_vars(RConnectAwait)
    /\ WF_vars(\E found \in BOOLEAN : RDownloadDir(found))
    /\ WF_vars(RCancelFire)
    /\ WF_vars(RRequestAwait)
    /\ WF_vars(\E ok \in BOOLEAN : RCreate(ok))
    /\ WF_vars(RAcceptAwait)

FairSpec == Init /\ [][Next]_vars /\ Fairness

\* the steps of the second receive_file call
Next2 ==
    \/ ReceiveFile2
    \/ R2Parse
    \/ R2MailboxConnected
    \/ R2MailboxFailed
    \/ R2TimerFire
    \/ \E v \in {"ok", "err"} : R2ConnectReady(v)
    \/ R2ConnectAwait
    \/ \E found \in BOOLEAN : R2DownloadDir(found)
    \/ R2CancelFire
    \/ \E same \in BOOLEAN, n \in 0..MaxFileSize : R2OfferArrives(same, n)
    \/ R2RequestFails
    \/ R2RequestAwait
    \/ \E ok \in BOOLEAN : R2Create(ok)
    \/ R2Chunk
    \/ \E v \in {"ok", "err"} : R2AcceptReady(v)
    \/ R2AcceptAwait

\* one send session and two concurrent receive_file calls; the first call
\* is given the code of the send session
TwoNext ==
    \/ \E e \in BOOLEAN : SendFile(e)
    \/ SfCheckExists
    \/ SfMailboxCreated
    \/ SfMailboxFailed
    \/ SfSpawn
    \/ SfSleepReturn
    \/ TConnectStart
    \/ PakeExchange
    \/ \E v \in {"ok", "err"} : SConnectReady(v)
    \/ STimerFire
    \/ TConnectAwait
    \/ \E n \in (0..MaxFileSize) \cup {-1} : TMetadata(n)
    \/ \E ok \in BOOLEAN : TOpen(ok)
    \/ SCancelFire
    \/ \E v \in {"ok", "err"} : SSendReady(v)
    \/ TSendAwait
    \/ ReceiveFile(SenderCode)
    \/ RParse
    \/ RMailboxConnected
    \/ RMailboxFailed
    \/ RTimerFire
    \/ \E v \in {"ok", "err"} : RConnectReady(v)
    \/ RConnectAwait
    \/ \E found \in BOOLEAN : RDownloadDir(found)
    \/ RCancelFire
    \/ OfferArrives
    \/ RRequestFails
    \/ RRequestAwait
    \/ \E ok \in BOOLEAN : RCreate(ok)
    \/ Chunk
    \/ \E v \in {"ok", "err"} : RAcceptReady(v)
    \/ RAcceptAwait
    \/ Next2

TwoSpec == Init /\ [][TwoNext]_vars

\* ================================================================ claims

\* number of results of command c the host has received
Delivered(c) ==
    LET From(o) == o.cmd = c IN Len(SelectSeq(hostOutcomes, From))

NoSenderNet == \A o \in SenderOps : sNet[o] = 0
NoReceiverNet == \A o \in ReceiverOps : rNet[o] = 0

\* results that name the expiry of a timeout
TimeoutResults == {"ErrNoReceiver", "ErrConnTimeout", "ErrReqTimeout",
                   "ErrXferTimeout"}
\* the one result whose message says the transfer was cancelled
CancelledResults == {"ErrNoOffer"}

\* C1: once the file exists and the mailbox was created, send_file returns
\* Ok(code) in every execution, and while it sleeps its return is possible
\* whatever the background task is doing (it does not wait for the peer).
C1_CodeReturnedWithoutPeer ==
    /\ [](sfPc = "sleep" => ENABLED SfSleepReturn)
    /\ (sfPc = "spawn") ~> (sfResult = "Ok" /\ sfCode = SenderCode)

\* send_file has returned the code while the task still awaits a peer and
\* no receiver has even started
C1_Witness ==
    /\ sfResult = "Ok"
    /\ taskPc = "connect" /\ sInner = "pending"
    /\ rfPc = "idle"

\* C2 (as claimed): every session reaches a terminal state, and a recorded
\* terminal result never changes.
C2_EverySessionTerminatesOnce ==
    /\ (taskPc = "start") ~> (taskPc = "done")
    /\ (rfPc = "parse") ~> (rfPc = "done")
    /\ [][/\ (taskResult # "none" => taskResult' = taskResult)
          /\ (rfResult # "none" => rfResult' = rfResult)]_vars

\* C3: a code string that does not parse makes receive_file return the
\* invalid-code error with no network operation started.
C3_BadCodeNoNetwork ==
    (rfPc \notin {"idle", "parse"} /\ ~ParseOk(rfCodeStr))
        => (rfPc = "done" /\ rfResult = "ErrCode" /\ NoReceiverNet)

\* a nameplate with no secret suffix was rejected
C3_Witness ==
    /\ rfResult = "ErrCode"
    /\ rfCodeStr = <<"7", "-">>
    /\ Delivered("receive_file") = 1

\* C4: a path that names no file makes send_file return the error before
\* any network call: no mailbox, no code, no task.
C4_MissingFileNoNetwork ==
    (sfPc \notin {"idle", "exists"} /\ ~sfExists)
        => /\ sfPc = "done" /\ sfResult = "ErrNoFile"
           /\ NoSenderNet
           /\ mailbox = "none" /\ sfCode = <<>>
           /\ spawned = 0 /\ taskPc = "none"

C4_Witness ==
    /\ sfResult = "ErrNoFile"
    /\ Delivered("send_file") = 1

\* C5: when the 300 s deadline passes with no peer connected the task ends
\* with the no-receiver error, and a session that ended so never gives a
\* receiver an offer or a file.
C5_NoPeerThenCodeDead ==
    /\ (taskPc = "connect" /\ sTimer) ~> (taskPc # "connect")
    /\ [][(taskPc = "connect" /\ sInner = "pending" /\ taskPc' # "connect")
            => taskResult' = "ErrNoReceiver"]_vars
    /\ [](taskResult = "ErrNoReceiver"
            => /\ offer = <<>>
               /\ rfPc \notin {"create", "accept"}
               /\ rfResult # "Ok"
               /\ rNet["Accept"] = 0
               /\ destWrites = 0)

\* the sender gave up, and a receiver that used the very code ended with
\* nothing
C5_Witness ==
    /\ taskResult = "ErrNoReceiver"
    /\ rfCodeStr = sfCode
    /\ rNet["WormholeConnect"] = 1
    /\ rfPc = "done" /\ rfResult \in {"ErrConnTimeout", "ErrReqTimeout"}

\* C6 (as claimed): a session that is ended by the expiry of the timer of
\* its phase ends with the timeout error of that phase.
C6_TimerExpiryFailsPhase ==
    /\ (taskPc = "done" /\ sTimer /\ sInner = "pending")
           => taskResult = "ErrNoReceiver"
    /\ (taskPc = "done" /\ sCancel) => taskResult \in TimeoutResults
    /\ (rfPc = "done" /\ rTimer /\ rInner = "pending")
           => rfResult \in TimeoutResults

\* C7 (as claimed): a session in which the cancel signal was raised ends
\* Cancelled.
C7_CancelEndsCancelled ==
    /\ (taskPc = "done" /\ sCancel) => taskResult \in CancelledResults
    /\ (rfPc = "done" /\ rCancel) => rfResult \in CancelledResults

\* C8 (as claimed): the host receives exactly one terminal outcome per
\* session: the result of receive_file, and the outcome of the detached
\* transfer on a channel of its own.
C8_OneOutcomePerSession ==
    /\ (rfPc = "done") => Delivered("receive_file") = 1
    /\ (taskPc = "done") => Delivered("handle_file_send") = 1

\* C9 (as claimed): receive_file returns Ok(path) only when accept wrote the
\* whole file: the destination returned as success is never incomplete.
C9_OkOnlyWhenComplete ==
    (rfResult = "Ok") => (destExists /\ destSize = offer[1])

\* C10: a phase that has succeeded is never turned into a failure by a
\* timer that fires afterwards, and a recorded result never changes.
C10_FirstOutcomeWins ==
    [][/\ (rfPc \in {"connect", "request"} /\ rInner = "ok")
              => rfResult' = "none"
       /\ (rfPc = "accept" /\ rInner = "ok") => rfResult' \in {"none", "Ok"}
       /\ (taskPc = "connect" /\ sInner = "ok") => taskResult' = "none"
       /\ (taskPc = "transfer" /\ sInner = "ok")
              => taskResult' \in {"none", "Ok"}
       /\ (rfResult # "none" => rfResult' = rfResult)
       /\ (taskResult # "none" => taskResult' = taskResult)
       /\ (sfResult # "none" => sfResult' = sfResult)]_vars

\* accept had written the whole file, the 600 s deadline passed before the
\* await resumed, and receive_file still returned Ok
C10_Witness ==
    /\ rfResult = "Ok"
    /\ rInner = "ok" /\ rTimer
    /\ destSize = offer[1]

\* results that are returned as Err(..) to the host
ReceiveErrors == ReceiveResults \ {"none", "Ok"}

\* the timer, progress and cancel events of each receive_file call
SignalsOfFirst == RTimerFire \/ RCancelFire \/ Chunk
SignalsOfSecond == R2TimerFire \/ R2CancelFire \/ R2Chunk
\* both calls are in req.accept, their handles opened on the same path, and
\* each has written through its handle
TwoWriters ==
    /\ rfPc = "accept" /\ r2Pc = "accept"
    /\ r2Offer[1]
    /\ rPos > 0 /\ r2Pos > 0
\* C11 (as claimed): two concurrent sessions with two different codes do not
\* interfere: the timers, progress and cancel signals of one receive session
\* leave the locals of the other unchanged, and never do two running receive
\* sessions both write to the same destination file.
C11_SessionsDoNotInterfere ==
    [][/\ SignalsOfFirst => UNCHANGED recv2Vars
       /\ SignalsOfSecond => UNCHANGED <<recvVars, rPos>>
       /\ ~TwoWriters']_vars

\* C12 (as claimed): a session that ends because its transfer call was
\* cancelled is not reported through an error result.
C12_CancelledIsNotAnError ==
    /\ (rfPc = "done" /\ rInner = "cancelled") => rfResult \notin ReceiveErrors
    /\ (taskPc = "done" /\ sInner = "cancelled") => taskPrinted # "failed"

\* C13 (as claimed): when receive_file returns success, the destination
\* file is as long as the size the sender declared in its offer.
C13_RoundTripLength ==
    (rfResult = "Ok") => (offer = <<fileSize>> /\ destSize = fileSize)

\* C14: a phase's call is started only from the state the previous phase
\* left on success, and after a session has a result it starts no call.
C14_PhasesInSequence ==
    [][/\ (sNet'["MailboxCreate"] # sNet["MailboxCreate"])
              => (sfPc = "exists" /\ sfExists)
       /\ (sNet'["WormholeConnect"] # sNet["WormholeConnect"])
              => (taskPc = "start" /\ mailbox = "open" /\ sNet["MailboxCreate"] = 1)
       /\ (sNet'["SendFile"] # sNet["SendFile"])
              => (taskPc = "open" /\ sInner = "ok" /\ sNet["WormholeConnect"] = 1)
       /\ (rNet'["MailboxConnect"] # rNet["MailboxConnect"])
              => (rfPc = "parse" /\ ParseOk(rfCodeStr))
       /\ (rNet'["WormholeConnect"] # rNet["WormholeConnect"])
              => (rfPc = "mbox" /\ rNet["MailboxConnect"] = 1)
       /\ (rNet'["RequestFile"] # rNet["RequestFile"])
              => (rfPc = "dldir" /\ rInner = "ok" /\ rNet["WormholeConnect"] = 1)
       /\ (rNet'["Accept"] # rNet["Accept"])
              => (rfPc = "create" /\ rInner = "ok" /\ offer # <<>>
                  /\ rNet["RequestFile"] = 1)
       /\ (taskResult # "none" \/ sfResult \in {"ErrNoFile", "ErrMailbox"})
              => sNet' = sNet
       /\ (rfResult # "none") => rNet' = rNet]_vars

\* both sessions went through all their phases, each call started once
C14_Witness ==
    /\ rfResult = "Ok" /\ taskResult = "Ok"
    /\ \A o \in ReceiverOps : rNet[o] = 1
    /\ \A o \in SenderOps : sNet[o] = 1

\* C15: the return of send_file leaves the spawned task as it is, and the
\* task goes on by itself until handle_file_send has returned its result.
C15_DetachedTaskRunsOn ==
    /\ [][(sfPc = "sleep" /\ sfPc' = "done") => UNCHANGED taskVars]_vars
    /\ [](taskPc = "done" => taskResult # "none")
    /\ (sfResult = "Ok" /\ taskPc # "done") ~> (taskPc = "done")

\* send_file has returned and the task is in the middle of its transfer
C15_Witness ==
    /\ sfPc = "done" /\ sfResult = "Ok"
    /\ taskPc = "transfer" /\ sInner = "pending"

\* C16: no network call is made twice in a session, and a session that
\* failed in a phase has made none of the calls of the later phases.
C16_NothingRetried ==
    /\ \A o \in SenderOps : sNet[o] <= 1
    /\ \A o \in ReceiverOps : rNet[o] <= 1
    /\ (taskResult \in {"ErrNoReceiver", "ErrWormhole", "ErrMetadata", "ErrOpen"})
          => sNet["SendFile"] = 0
    /\ (sfResult \in {"ErrNoFile", "ErrMailbox"})
          => (sNet["WormholeConnect"] = 0 /\ sNet["SendFile"] = 0)
    /\ (rfResult \in {"ErrCode", "ErrMailbox"}) => rNet["WormholeConnect"] = 0
    /\ (rfResult \in {"ErrCode", "ErrMailbox", "ErrConnTimeout", "ErrWormhole",
                      "ErrNoDownloads"}) => rNet["RequestFile"] = 0
    /\ (rfResult \in ReceiveErrors \ {"ErrXferTimeout", "ErrAccept"})
          => rNet["Accept"] = 0

\* the key exchange failed on a wrong secret: both sides ended, each after
\* its one Wormhole::connect
C16_Witness ==
    /\ key = "mismatch"
    /\ taskResult = "ErrWormhole" /\ sNet["WormholeConnect"] = 1
    /\ rfResult = "ErrWormhole" /\ rNet["WormholeConnect"] = 1

\* C17: when File::create fails receive_file returns that failure without
\* calling accept; the destination is untouched and nothing is acknowledged.
C17_NoAcceptWithoutDestination ==
    /\ [][(rfPc = "create" /\ rfPc' # "create" /\ destWrites' = destWrites)
            => (rfPc' = "done" /\ rfResult' = "ErrCreate" /\ rNet' = rNet
                /\ UNCHANGED destVars)]_vars
    /\ [](rfResult = "ErrCreate"
            => (rNet["Accept"] = 0 /\ destWrites = 0 /\ ~acked))

\* an offer had been received and the destination could not be created
C17_Witness ==
    /\ rfResult = "ErrCreate"
    /\ offer # <<>>
    /\ rNet["RequestFile"] = 1

\* C18: send_file returns Ok exactly when it spawned its one task, an error
\* exactly when it spawned none, and the value it returns after the sleep
\* is Ok whatever the task has done meanwhile.
C18_ResultIndependentOfTask ==
    /\ [](spawned <= 1 /\ (spawned = 1 <=> taskPc # "none"))
    /\ []((sfPc = "done") => (sfResult = "Ok" <=> spawned = 1))
    /\ []((sfResult = "Ok") => (sfCode = SenderCode /\ mailbox = "open"))
    /\ [][(sfPc = "sleep" /\ sfPc' # "sleep")
            => (sfResult' = "Ok" /\ spawned' = spawned)]_vars

\* send_file returned Ok although the task it spawned has failed
C18_Witness ==
    /\ sfResult = "Ok" /\ spawned = 1
    /\ taskPc = "done" /\ taskResult \in {"ErrWormhole", "ErrNoReceiver"}

\* failures of receive_file before an offer was received
PreOfferErrors == {"ErrCode", "ErrMailbox", "ErrConnTimeout", "ErrWormhole",
                   "ErrNoDownloads", "ErrReqTimeout", "ErrRequest",
                   "ErrNoOffer"}

\* C19: the destination is created (empty) only by the step that follows a
\* received offer, is only written during accept, is never deleted, and a
\* session that failed before an offer has not touched it.
C19_DestinationFrame ==
    /\ [][/\ (destWrites' # destWrites)
                => (rfPc = "create" /\ offer # <<>> /\ rInner = "ok"
                    /\ destExists' /\ destSize' = 0)
          /\ (<<destExists, destSize>>' # <<destExists, destSize>>)
                => (rfPc \in {"create", "accept"} /\ offer # <<>>)
          /\ destExists => destExists'
          /\ (rfPc = "accept" /\ rfPc' = "done") => UNCHANGED destVars]_vars
    /\ [](rfResult \in PreOfferErrors => destWrites = 0)

\* the transfer timed out after a chunk was written and the partial file
\* is still there
C19_Witness ==
    /\ rfResult = "ErrXferTimeout"
    /\ destExists /\ destWrites = 1
    /\ destSize > 0 /\ destSize < offer[1]

====
